---- MODULE Spec2Model ----
(***************************************************************************)
(* Model of the two command-line programs of the repository:               *)
(*   confluence_erase_attachments.py   (show-page, list, delete)           *)
(*   confluence_update_attachment.py   (update)                            *)
(* One invocation of one command is one run.  The remote service is part   *)
(* of the state: the attachments of the page in the service's order, and   *)
(* how the service answers requests.                                       *)
(*                                                                         *)
(* Conventions.  Python's None and the empty string are both falsy in      *)
(* every test the code makes on an optional string, so an unset optional   *)
(* string is "".  Attachment ids are positive integers, 0 is "no id given".*)
(* A file path is the sequence of its "/"-separated segments.              *)
(***************************************************************************)
EXTENDS Integers, Sequences, FiniteSets, TLC

\* ------------------------------------------------------------------ bounds
MaxDepth == 2      \* leading directory segments of a source path
MaxEntries == 2    \* entries of a mapping file
MaxAtts == 3       \* attachments on the page in the initial state
MaxLimit == 2      \* largest page size (limit) and service page ceiling
MaxRuns == 2       \* successive runs of the update command

\* ------------------------------------------------------------- small helpers
Min(a, b) == IF a < b THEN a ELSE b

Last(s) == s[Len(s)]

Front(s) == SubSeq(s, 1, Len(s) - 1)

RECURSIVE SeqsUpTo(_, _)
\* all sequences over S of length at most n
SeqsUpTo(S, n) ==
  IF n = 0 THEN {<<>>}
  ELSE LET T == SeqsUpTo(S, n - 1) IN
       T \cup {Append(t, x) : t \in {u \in T : Len(u) = n - 1}, x \in S}

\* ----------------------------------------------------------- path handling
RECURSIVE normpath_fold(_, _)
\* os.path.normpath on a relative path: "" and "." segments vanish, ".."
\* removes the segment before it unless there is none or it is ".." itself.
normpath_fold(p, acc) ==
  IF p = <<>> THEN acc
  ELSE LET s == Head(p) IN
       IF s = "" \/ s = "." THEN normpath_fold(Tail(p), acc)
       ELSE IF s = ".."
            THEN IF acc # <<>> /\ Last(acc) # ".."
                 THEN normpath_fold(Tail(p), Front(acc))
                 ELSE normpath_fold(Tail(p), Append(acc, ".."))
            ELSE normpath_fold(Tail(p), Append(acc, s))

\* os.path.normpath: the empty result is "."
normpath(p) ==
  LET q == normpath_fold(p, <<>>) IN IF q = <<>> THEN <<".">> ELSE q

\* os.path.basename: the text after the last "/"
basename(p) == IF p = <<>> THEN "" ELSE Last(p)

\* a plausible slip: compare the whole path text instead of its base name
norm_whole_path(p) == p

\* _norm(p): the name a source is compared by
norm(p) == basename(normpath(p))

\* ---------------------------------------------------------- mapping file
\* A page URL: scheme, host and the segments of its path ("" is no URL).
NoUrl == [scheme |-> "", netloc |-> "", path |-> <<>>]

UrlWiki ==
  [scheme |-> "https", netloc |-> "org.atlassian.net",
   path |-> <<"wiki", "spaces", "X", "pages", "123456", "Title">>]

UrlPlain ==
  [scheme |-> "https", netloc |-> "org.atlassian.net",
   path |-> <<"display", "X", "Title">>]

UrlNoHost == [scheme |-> "", netloc |-> "", path |-> <<"wiki", "pages", "777">>]

\* the path segments that are a run of digits
DigitSegs == {"123456", "777"}

RECURSIVE pages_id(_)
\* re.search(r"/pages/(\d+)", url): the digits after the first "/pages/"
\* that is followed by a digit ("" when there is no match)
pages_id(path) ==
  IF Len(path) < 2 THEN ""
  ELSE IF path[1] = "pages" /\ path[2] \in DigitSegs THEN path[2]
       ELSE pages_id(Tail(path))

\* An id field as written: text `core` with or without blanks around it.
\* A missing id is [pad |-> FALSE, core |-> ""].
IdTruthy(i) == i.pad \/ i.core # ""

\* str(item.get("id") or "").strip()
IdStrip(i) == IF IdTruthy(i) THEN i.core ELSE ""

\* The "confluence" value of an entry, by shape:
\*   none    missing, null, or another falsy value
\*   scalar  a truthy value that is neither a list nor a dict
\*   dict    one object {id, url}
\*   list    a list; `items` holds its elements (dicts, or scalars as
\*           [tag |-> "scalar"])
CfgNone == [tag |-> "none"]

CfgScalar == [tag |-> "scalar"]

CfgDict(id, url) == [tag |-> "dict", id |-> id, url |-> url]

CfgList(items) == [tag |-> "list", items |-> items]

\* line 41: (cfg[0] if isinstance(cfg, list) and cfg else cfg) if cfg else None
cfg_item(cfg) ==
  IF cfg.tag = "none" THEN CfgNone
  ELSE IF cfg.tag = "list"
       THEN IF cfg.items = <<>> THEN CfgNone ELSE cfg.items[1]
       ELSE cfg

\* An entry of the mapping file: a dict with a source path and a confluence
\* value, or something that is no dict.
Entry(source, cfg) == [dict |-> TRUE, source |-> source, confluence |-> cfg]

NonDictEntry == [dict |-> FALSE, source |-> <<>>, confluence |-> CfgNone]

\* A mapping file: a top-level list of entries, or anything else.
Publish(entries) == [list |-> TRUE, entries |-> entries]

NotAList == [list |-> FALSE, entries |-> <<>>]

Resolved(id, url) == [ok |-> TRUE, site |-> "", id |-> id, url |-> url]

ConfigFail(site) == [ok |-> FALSE, site |-> site, id |-> "", url |-> NoUrl]

\* lines 40-51: the entry that matched decides
entry_page(entry) ==
  LET item == cfg_item(entry.confluence) IN
  IF item.tag # "dict" THEN ConfigFail("no_confluence_config")
  ELSE LET id0 == IdStrip(item.id)
           page_id == IF id0 = "" /\ item.url # NoUrl
                      THEN pages_id(item.url.path) ELSE id0
       IN IF page_id = "" THEN ConfigFail("no_page_id")
          ELSE Resolved(page_id, item.url)

RECURSIVE scan_entries(_, _)
\* lines 37-52: the first dict entry whose normalised source equals target
scan_entries(entries, target) ==
  IF entries = <<>> THEN ConfigFail("source_not_found")
  ELSE LET e == Head(entries) IN
       IF ~e.dict \/ norm(e.source) # target
       THEN scan_entries(Tail(entries), target)
       ELSE entry_page(e)

\* get_page_from_publish(publish_path, source_qmd)
get_page_from_publish(publish, source_qmd) ==
  IF ~publish.list THEN ConfigFail("not_a_list")
  ELSE scan_entries(publish.entries, norm(source_qmd))

\* make_auth(email, token): the option, else the environment variable
make_auth(email, token, env_email, env_token) ==
  LET em == IF email # "" THEN email ELSE env_email IN
  IF em = "" THEN ConfigFail("no_email")
  ELSE LET tk == IF token # "" THEN token ELSE env_token IN
       IF tk = "" THEN ConfigFail("no_token")
       ELSE [ok |-> TRUE, site |-> "", id |-> em, url |-> NoUrl]

\* A base URL as written: scheme, host, context path and whether "/"
\* characters end it.  The empty text is NoBase.
NoBase == [scheme |-> "", netloc |-> "", ctx |-> "", slash |-> FALSE]

\* infer_base_url_from_page_url(page_url): scheme, host and a recognised
\* first path segment; NoBase (None) when the URL gives no scheme or host
infer_base_url_from_page_url(page_url) ==
  IF page_url = NoUrl THEN NoBase
  ELSE LET ctx == IF page_url.path # <<>> /\ page_url.path[1] = "wiki"
                  THEN "/wiki"
                  ELSE IF page_url.path # <<>> /\ page_url.path[1] = "confluence"
                       THEN "/confluence" ELSE ""
       IN IF page_url.scheme # "" /\ page_url.netloc # ""
          THEN [scheme |-> page_url.scheme, netloc |-> page_url.netloc,
                ctx |-> ctx, slash |-> FALSE]
          ELSE NoBase

\* resolve_base_url(cli_base_url, page_url): option, environment, inference;
\* base.rstrip("/")
resolve_base_url(cli_base_url, env_base_url, page_url) ==
  LET base == IF cli_base_url # NoBase THEN cli_base_url
              ELSE IF env_base_url # NoBase THEN env_base_url
                   ELSE infer_base_url_from_page_url(page_url)
  IN IF base = NoBase THEN [ok |-> FALSE, site |-> "no_base_url", base |-> NoBase]
     ELSE [ok |-> TRUE, site |-> "", base |-> [base EXCEPT !.slash = FALSE]]

\* typer.Exit is click.exceptions.Exit, whose constructor takes the exit code
\* alone: raise typer.Exit(code=c, message=...) raises TypeError where it
\* stands, nothing catches it, and the interpreter ends with status 1.
\* raise typer.Exit(code=c) and raise typer.Exit() end with status c and 0.
exit_status(c, message) == IF message THEN 1 ELSE c

\* ------------------------------------------------------------ input sets
SourceNames == {"plot.qmd", "other.qmd"}

DirSegs == {"figs", "docs", ".."}

\* the source paths a run may be given, and a mapping file may list
Sources ==
  {d \o <<n>> : d \in SeqsUpTo(DirSegs, MaxDepth), n \in SourceNames}

IdBlank == [pad |-> FALSE, core |-> ""]

IdSpaces == [pad |-> TRUE, core |-> ""]

IdPadded == [pad |-> TRUE, core |-> "42"]

EntryPool ==
  { Entry(<<"figs", "plot.qmd">>, CfgDict(IdBlank, UrlWiki)),
    Entry(<<"plot.qmd">>, CfgList(<<CfgDict(IdPadded, UrlNoHost), CfgScalar>>)),
    Entry(<<"docs", "..", "plot.qmd">>, CfgDict(IdSpaces, UrlPlain)),
    Entry(<<"docs", "other.qmd">>, CfgNone),
    Entry(<<"other.qmd">>, CfgList(<<CfgScalar>>)),
    Entry(<<"figs", "docs", "other.qmd">>, CfgDict(IdBlank, NoUrl)),
    NonDictEntry }

\* the mapping files
Publishes ==
  {NotAList} \cup {Publish(es) : es \in SeqsUpTo(EntryPool, MaxEntries)}

\* the mapping files and sources the commands that send requests are run with
RunPublishes == {NotAList} \cup {Publish(es) : es \in SeqsUpTo(EntryPool, 1)}

RunSources == {<<"plot.qmd">>, <<"docs", "figs", "other.qmd">>}

OptText == {"", "x"}

BaseInputs ==
  {NoBase, [scheme |-> "https", netloc |-> "org.atlassian.net",
            ctx |-> "/wiki", slash |-> TRUE]}

\* attachment titles are character sequences, so that "contains" is computed
Titles == {<<"a">>, <<"a", "b">>}

NoTitle == <<>>

Contains(sub, t) ==
  \E i \in 0..(Len(t) - Len(sub)) : SubSeq(t, i + 1, i + Len(sub)) = sub

InitVersions == {1, 2}

\* an attachment of the page as the service holds it
Att(id, title, ver) == [id |-> id, title |-> title, version |-> ver]

NoAtt == Att(0, NoTitle, 0)

\* the pages the model starts from: ids are given in upload order
InitRemotes(n, versions) ==
  UNION { { [i \in 1..k |-> Att(i, ts[i], vs[i])] :
              ts \in [1..k -> Titles], vs \in [1..k -> versions] } :
          k \in 0..n }

Programs == {"show-page", "list", "delete", "update"}

\* the arguments of a run; a command reads only its own
NoArgs ==
  [attachment_name |-> NoTitle, file_name |-> NoTitle, attachment_id |-> 0,
   create_if_missing |-> FALSE, dry_run_flag |-> "", dry_run |-> FALSE,
   yes |-> FALSE,
   filename_contains |-> NoTitle, output |-> "table", limit |-> 1]

\* --------------------------------------------------------------- state
VARIABLES
  prog,        \* the command of this run
  pc,          \* where the run stands
  info,        \* the resolved page identity (get_page_from_publish)
  b,           \* the resolved base URL
  args,        \* the command-line arguments
  remote,      \* the page's attachments, in the service's order
  nextId,      \* the id the service gives the next new attachment
  srv,         \* how the service answers: get/post status, page ceiling,
               \* and the body a dry run's fetch by id was answered with
               \* ("" when the run is no such dry run)
  calls,       \* the requests this run has sent, in order
  out,         \* what this run has echoed, in order
  exit,        \* the process exit status once pc = "done"
  code,        \* the code= the raise names (1 for an uncaught exception)
  failAt,      \* the place where the run failed ("" if it did not)
  att_obj,     \* update: the attachment object resolved
  upload_name, \* update: the upload name
  raced,       \* update: another writer changed att_obj's attachment since
  changed,     \* update: the remote state changed since the run began
  rerun,       \* update: what the dry run this run repeats reported
  prev,        \* update: how the previous run ended
  runs,        \* update: runs started so far
  start,       \* listing: the offset of the next page request
  atts,        \* listing: the records collected
  idx,         \* delete: the records already handled
  failures,    \* delete: the failure count
  answer,      \* delete: the answer given to the confirmation prompt
  shown        \* show-page: the mapping file and source of the run

vars ==
  <<prog, pc, info, b, args, remote, nextId, srv, calls, out, exit, code,
    failAt, att_obj, upload_name, raced, changed, rerun, prev, runs, start,
    atts, idx, failures, answer, shown>>

updVars == <<att_obj, upload_name, raced, changed, rerun, prev, runs>>

delVars == <<start, atts, idx, failures, answer>>

envVars == <<remote, nextId, srv>>

NoInfo == [id |-> "", url |-> NoUrl]

NoPrev == [kind |-> "", exit |-> 0, code |-> 0]

NoShown == [publish |-> NotAList, source |-> <<>>]

InitRun ==
  /\ pc = "page" /\ info = NoInfo /\ b = NoBase /\ args = NoArgs
  /\ calls = <<>> /\ out = <<>> /\ exit = 0 /\ code = 0 /\ failAt = ""
  /\ att_obj = NoAtt /\ upload_name = NoTitle /\ raced = FALSE
  /\ changed = FALSE /\ rerun = "" /\ prev = NoPrev /\ runs = 1
  /\ start = 0 /\ atts = <<>> /\ idx = 0 /\ failures = 0 /\ answer = ""
  /\ shown = NoShown

Init ==
  /\ prog \in Programs
  /\ InitRun
  /\ remote \in IF prog \in {"list", "delete"} THEN InitRemotes(MaxAtts, {1})
                ELSE IF prog = "update"
                     THEN InitRemotes(MaxAtts - 1, InitVersions)
                     ELSE {<<>>}
  /\ nextId = Len(remote) + 1
  /\ srv \in [get : IF prog = "update" THEN {200, 500} ELSE {200},
              post : IF prog = "update" THEN {200, 500} ELSE {200},
              cap : IF prog \in {"list", "delete"} THEN 1..MaxLimit ELSE {1},
              body : {""}]

\* the run ends here with a failure
Die(site, c, message) ==
  /\ pc' = "done"
  /\ failAt' = site
  /\ code' = c
  /\ exit' = exit_status(c, message)

\* the run ends here without one (return, or raise typer.Exit())
Finish ==
  /\ pc' = "done"
  /\ UNCHANGED <<failAt, code, exit>>

\* ----------------------------------------------- the steps every command takes
\* info = get_page_from_publish(publish, str(source))
ResolvePage ==
  /\ pc = "page" /\ prog # "show-page"
  /\ \E publish \in RunPublishes, source \in RunSources :
       LET r == get_page_from_publish(publish, source) IN
       IF r.ok
       THEN /\ info' = [id |-> r.id, url |-> r.url]
            /\ pc' = "auth"
            /\ UNCHANGED <<failAt, code, exit>>
       ELSE /\ Die(r.site, 2, TRUE)
            /\ UNCHANGED info
  /\ UNCHANGED <<prog, b, args, calls, out, shown>>
  /\ UNCHANGED <<envVars, updVars, delVars>>

\* auth = make_auth(email, token)
MakeAuth ==
  /\ pc = "auth"
  /\ \E email \in OptText, token \in OptText,
        env_email \in OptText, env_token \in OptText :
       LET r == make_auth(email, token, env_email, env_token) IN
       IF r.ok
       THEN /\ pc' = "base"
            /\ UNCHANGED <<failAt, code, exit>>
       ELSE Die(r.site, 2, TRUE)
  /\ UNCHANGED <<prog, info, b, args, calls, out, shown>>
  /\ UNCHANGED <<envVars, updVars, delVars>>

Filters == {NoTitle, <<"a">>, <<"b">>}

\* delete's --dry-run/--no-dry-run option, default True ("" is no flag)
delete_dry_run(flag) == flag # "--no-dry-run"

\* update's --dry-run option, default False
update_dry_run(flag) == flag = "--dry-run"

\* the arguments a command may be run with
ArgsOf(p) ==
  IF p = "list"
  THEN {[NoArgs EXCEPT !.filename_contains = f, !.output = o, !.limit = l] :
          f \in Filters, o \in {"table", "tsv", "json"}, l \in 1..MaxLimit}
  ELSE IF p = "delete"
  THEN {[NoArgs EXCEPT !.filename_contains = f, !.dry_run_flag = d,
                       !.dry_run = delete_dry_run(d), !.yes = y, !.limit = l] :
          f \in Filters, d \in {"", "--dry-run", "--no-dry-run"},
          y \in BOOLEAN, l \in 1..MaxLimit}
  ELSE {[NoArgs EXCEPT !.attachment_name = n, !.file_name = <<"a">>,
                       !.attachment_id = i, !.create_if_missing = c,
                       !.dry_run_flag = d, !.dry_run = update_dry_run(d)] :
          n \in {NoTitle} \cup Titles, i \in 0..(MaxAtts - 1),
          c \in BOOLEAN, d \in {"", "--dry-run"}}

\* a variant that asks the host of the page URL for its context path, with
\* a request, before it gives up on the base URL
ResolveBaseProbing ==
  /\ pc = "base"
  /\ \E cli \in BaseInputs, env \in BaseInputs :
       LET r == resolve_base_url(cli, env, info.url) IN
       IF r.ok
       THEN /\ b' = r.base
            /\ \E a \in ArgsOf(prog) :
                 /\ args' = a
                 /\ upload_name' = IF prog # "update" THEN NoTitle
                                   ELSE IF a.attachment_name # NoTitle
                                        THEN a.attachment_name ELSE a.file_name
            /\ pc' = IF prog = "update" THEN "resolve" ELSE "list"
            /\ UNCHANGED <<failAt, code, exit, calls>>
       ELSE /\ Die(r.site, 2, TRUE)
            /\ calls' = Append(calls, [op |-> "probe", id |-> 0, name |-> <<>>,
                                       start |-> 0, status |-> 404])
            /\ UNCHANGED <<b, args, upload_name>>
  /\ UNCHANGED <<prog, info, out, shown>>
  /\ UNCHANGED <<envVars, delVars>>
  /\ UNCHANGED <<att_obj, raced, changed, rerun, prev, runs>>

\* b = resolve_base_url(base_url, info["url"]); the run then reads its
\* arguments (update: upload_name = attachment_name or file.name)
ResolveBase ==
  /\ pc = "base"
  /\ \E cli \in BaseInputs, env \in BaseInputs :
       LET r == resolve_base_url(cli, env, info.url) IN
       IF r.ok
       THEN /\ b' = r.base
            /\ \E a \in ArgsOf(prog) :
                 /\ args' = a
                 /\ upload_name' = IF prog # "update" THEN NoTitle
                                   ELSE IF a.attachment_name # NoTitle
                                        THEN a.attachment_name ELSE a.file_name
            /\ pc' = IF prog = "update" THEN "resolve" ELSE "list"
            /\ UNCHANGED <<failAt, code, exit>>
       ELSE /\ Die(r.site, 2, TRUE)
            /\ UNCHANGED <<b, args, upload_name>>
  /\ UNCHANGED <<prog, info, calls, out, shown>>
  /\ UNCHANGED <<envVars, delVars>>
  /\ UNCHANGED <<att_obj, raced, changed, rerun, prev, runs>>

\* show_page: resolve the page and the base URL, echo them; no request
ShowPage ==
  /\ pc = "page" /\ prog = "show-page"
  /\ \E publish \in Publishes, source \in Sources, env \in BaseInputs :
       LET r == get_page_from_publish(publish, source)
           u == resolve_base_url(NoBase, env, r.url)
       IN /\ shown' = [publish |-> publish, source |-> source]
          /\ IF ~r.ok
             THEN Die(r.site, 2, TRUE) /\ UNCHANGED <<info, b, out>>
             ELSE /\ info' = [id |-> r.id, url |-> r.url]
                  /\ IF ~u.ok
                     THEN Die(u.site, 2, TRUE) /\ UNCHANGED <<b, out>>
                     ELSE /\ b' = u.base
                          /\ out' = Append(out, [msg |-> "page", n |-> 0])
                          /\ Finish
  /\ UNCHANGED <<prog, args, calls>>
  /\ UNCHANGED <<envVars, updVars, delVars>>

\* ---------------------------------------------------------------- requests
Call(op, id, name, st, status) ==
  [op |-> op, id |-> id, name |-> name, start |-> st, status |-> status]

Echo(msg, n) == [msg |-> msg, n |-> n]

\* GET .../child/attachment?start=&limit=: the service returns at most
\* min(limit, its own ceiling) records from offset st, and a "next" link
\* when records remain after them
page_results(rem, st, lim, cap) ==
  SubSeq(rem, st + 1, Min(st + Min(lim, cap), Len(rem)))

page_has_next(rem, st, lim, cap) == st + Min(lim, cap) < Len(rem)

\* lines 78-93: the filter on the title and the projection of a record
keep_record(att, filename_contains) ==
  ~(filename_contains # NoTitle /\ ~Contains(filename_contains, att.title))

project(att) == Att(att.id, att.title, att.version)

RECURSIVE collect(_, _)
collect(results, filename_contains) ==
  IF results = <<>> THEN <<>>
  ELSE IF keep_record(Head(results), filename_contains)
       THEN <<project(Head(results))>> \o collect(Tail(results), filename_contains)
       ELSE collect(Tail(results), filename_contains)

\* line 72: the offset of the next page request
next_start(st, lim, got) == st + lim

\* line 72: whether another page is requested
more_pages(has_next) == has_next

\* a plausible slip: ignore a failed page request
raise_for_status_never(status) == FALSE

\* r.raise_for_status(): an HTTPError for a 4xx or 5xx status
raise_for_status(status) == status >= 400

\* a plausible slip: the dry-run test is left out
delete_gate_no_dry_run(found, dry_run, yes) ==
  IF found = <<>> THEN "no_match"
  ELSE IF ~yes THEN "confirm" ELSE "delete"

\* lines 163-173: what delete_cmd does with the listing
delete_gate(found, dry_run, yes) ==
  IF found = <<>> THEN "no_match"
  ELSE IF dry_run THEN "dry_run"
       ELSE IF ~yes THEN "confirm" ELSE "delete"

\* a plausible slip: only 204 counts as deleted
is_deleted_204_only(status) == status = 204

\* line 177: r.status_code in (204, 200)
is_deleted(status) == status \in {204, 200}

ListStatuses == {200, 500}

DeleteStatuses == {200, 204, 404}

\* the service's page without the attachment id
RECURSIVE without(_, _)
without(rem, id) ==
  IF rem = <<>> THEN <<>>
  ELSE IF Head(rem).id = id THEN without(Tail(rem), id)
       ELSE <<Head(rem)>> \o without(Tail(rem), id)

\* ------------------------------------------------------- list and delete
\* one turn of iter_attachments' loop, with list_page_attachments' handling
\* of the records it yields; after the last page, the rest of list_cmd, or
\* of delete_cmd up to its prompt or its first DELETE
ListPage ==
  /\ pc = "list"
  /\ \E status \in ListStatuses :
       LET ok == status = 200
           results == IF ok THEN page_results(remote, start, args.limit, srv.cap)
                      ELSE <<>>
           has_next == ok /\ page_has_next(remote, start, args.limit, srv.cap)
           found == atts \o collect(results, args.filename_contains)
           gate == delete_gate(found, args.dry_run, args.yes)
       IN /\ calls' = Append(calls, Call("list", 0, NoTitle, start, status))
          /\ IF raise_for_status(status)
             THEN /\ Die("list_http", 1, FALSE)
                  /\ UNCHANGED <<start, atts, out>>
             ELSE /\ atts' = found
                  /\ IF more_pages(has_next)
                     THEN /\ start' = next_start(start, args.limit, Len(results))
                          /\ UNCHANGED <<pc, failAt, code, exit, out>>
                     ELSE /\ UNCHANGED start
                          /\ IF prog = "list"
                             THEN /\ out' = Append(out,
                                       IF args.output = "table" /\ found = <<>>
                                       THEN Echo("no_attachments", 0)
                                       ELSE Echo(args.output, Len(found)))
                                  /\ Finish
                             ELSE IF gate = "no_match"
                             THEN /\ out' = Append(out, Echo("no_match", 0))
                                  /\ Finish
                             ELSE IF gate = "dry_run"
                             THEN /\ out' = out \o <<Echo("found", Len(found)),
                                                     Echo("dry_run", 0)>>
                                  /\ Finish
                             ELSE /\ out' = Append(out, Echo("found", Len(found)))
                                  /\ pc' = gate
                                  /\ UNCHANGED <<failAt, code, exit>>
  /\ UNCHANGED <<prog, info, b, args, shown, idx, failures, answer>>
  /\ UNCHANGED <<envVars, updVars>>

\* typer.confirm("Proceed to delete the attachments above?")
Confirm ==
  /\ pc = "confirm"
  /\ \E ans \in {"y", "n"} :
       /\ answer' = ans
       /\ IF ans = "y"
          THEN pc' = "delete" /\ UNCHANGED <<failAt, code, exit>>
          ELSE Die("declined", 1, FALSE)
  /\ UNCHANGED <<prog, info, b, args, calls, out, shown>>
  /\ UNCHANGED <<start, atts, idx, failures>>
  /\ UNCHANGED <<envVars, updVars>>

\* one turn of the loop of lines 175-182, and after the last the summary
DeleteOne ==
  /\ pc = "delete" /\ idx < Len(atts)
  /\ LET a == atts[idx + 1] IN
     \E status \in DeleteStatuses :
       LET n == IF is_deleted(status) THEN failures ELSE failures + 1
           line == IF is_deleted(status) THEN Echo("deleted", a.id)
                   ELSE Echo("failed", a.id)
       IN /\ calls' = Append(calls, Call("delete", a.id, a.title, 0, status))
          /\ remote' = IF status \in {200, 204} THEN without(remote, a.id)
                       ELSE remote
          /\ failures' = n
          /\ idx' = idx + 1
          /\ IF idx + 1 < Len(atts)
             THEN /\ out' = Append(out, line)
                  /\ UNCHANGED <<pc, failAt, code, exit>>
             ELSE /\ out' = out \o <<line, IF n = 0 THEN Echo("all_succeeded", 0)
                                           ELSE Echo("completed_failures", n)>>
                  /\ Finish
  /\ UNCHANGED <<prog, info, b, args, shown, start, atts, answer>>
  /\ UNCHANGED <<nextId, srv, updVars>>

\* ------------------------------------------------------------------ update
\* the service's record with this id (NoAtt when it holds none)
RECURSIVE find_att(_, _)
find_att(rem, id) ==
  IF rem = <<>> THEN NoAtt
  ELSE IF Head(rem).id = id THEN Head(rem) ELSE find_att(Tail(rem), id)

\* GET .../child/attachment?filename=: the records with that title
RECURSIVE by_filename(_, _)
by_filename(rem, filename) ==
  IF rem = <<>> THEN <<>>
  ELSE IF Head(rem).title = filename
       THEN <<Head(rem)>> \o by_filename(Tail(rem), filename)
       ELSE by_filename(Tail(rem), filename)

RECURSIVE first_highest(_, _)
\* results.sort(key=version number, reverse=True); results[0]: the sort is
\* stable, so of the records with the highest version the first one leads
first_highest(results, best) ==
  IF results = <<>> THEN best
  ELSE first_highest(Tail(results),
                     IF Head(results).version > best.version
                     THEN Head(results) ELSE best)

\* lookup_attachment_by_name, after raise_for_status (NoAtt is None)
lookup_attachment_by_name(rem, filename) ==
  LET results == by_filename(rem, filename) IN
  IF results = <<>> THEN NoAtt ELSE first_highest(Tail(results), Head(results))

\* line 132: att_obj.get("title") or upload_name
server_title_or(att, name) == IF att.title # NoTitle THEN att.title ELSE name

\* a plausible slip: the update call sends the name given on the command line
current_title_from_cli(att, name) ==
  IF args.attachment_name # NoTitle THEN args.attachment_name
  ELSE args.file_name

\* line 154: current_title = att_obj.get("title") or upload_name
current_title(att, name) == IF att.title # NoTitle THEN att.title ELSE name

\* a plausible slip: the dry-run test of the update branch is left out
update_gate_no_dry_run(att, create_if_missing, dry_run) ==
  IF att = NoAtt
  THEN IF ~create_if_missing THEN "not_found"
       ELSE IF dry_run THEN "would_create" ELSE "create"
  ELSE "update"

\* lines 138-158: what update_cmd does with the attachment it resolved
update_gate(att, create_if_missing, dry_run) ==
  IF att = NoAtt
  THEN IF ~create_if_missing THEN "not_found"
       ELSE IF dry_run THEN "would_create" ELSE "create"
  ELSE IF dry_run THEN "would_update" ELSE "update"

\* the service's page with attachment id given a new version under `name`
RECURSIVE with_new_version(_, _, _)
with_new_version(rem, id, name) ==
  IF rem = <<>> THEN <<>>
  ELSE (IF Head(rem).id = id
        THEN <<Att(id, name, Head(rem).version + 1)>>
        ELSE <<Head(rem)>>) \o with_new_version(Tail(rem), id, name)

\* What the body of a 200 answer to GET content/{id} can hold.  The code
\* takes the body as it comes (line 130) and reads only whether it is
\* empty, its "id", its "title" and its version:
\*   object  the record the service holds under that id
\*   empty   an object without members, {}
\*   other   the record of another attachment of the page
FetchShapes == {"object", "empty", "other"}

\* line 130: att_obj = r.json(), the bodies of that shape ({} is falsy, as
\* None is: both are NoAtt)
fetched(rem, id, shape) ==
  IF shape = "object" THEN {find_att(rem, id)}
  ELSE IF shape = "empty" THEN {NoAtt}
  ELSE {rem[i] : i \in {j \in 1..Len(rem) : rem[j].id # id}}

\* lines 124-158: resolve the attachment (one GET), then decide; the run
\* either ends or stands before its one POST.  The body of a fetch by id
\* is an input of the run; the repeat of a dry run is answered as the dry
\* run was.
ResolveAttachment ==
  /\ pc = "resolve"
  /\ LET byId == args.attachment_id # 0
         found == find_att(remote, args.attachment_id)
         status == IF srv.get # 200 THEN srv.get
                   ELSE IF byId /\ found = NoAtt THEN 404 ELSE 200
         shapes == IF ~byId \/ status # 200 THEN {srv.body}
                   ELSE IF srv.body # "" THEN {srv.body} ELSE FetchShapes
     IN \E shape \in shapes :
        \E att \in (IF ~byId
                    THEN {lookup_attachment_by_name(remote, upload_name)}
                    ELSE IF status # 200 THEN {NoAtt}
                    ELSE fetched(remote, args.attachment_id, shape)) :
          LET name == IF byId THEN server_title_or(att, upload_name)
                      ELSE upload_name
              gate == update_gate(att, args.create_if_missing, args.dry_run)
          IN /\ calls' = Append(calls,
                   IF byId
                   THEN Call("fetch", args.attachment_id, NoTitle, 0, status)
                   ELSE Call("lookup", 0, upload_name, 0, status))
             /\ srv' = [srv EXCEPT !.body =
                         IF byId /\ status = 200
                            /\ gate \in {"would_create", "would_update"}
                         THEN shape ELSE ""]
             /\ IF byId /\ status # 200
                THEN /\ Die("attachment_not_accessible", 2, TRUE)
                     /\ UNCHANGED <<att_obj, upload_name, out>>
                ELSE IF ~byId /\ raise_for_status(status)
                THEN /\ Die("lookup_http", 1, FALSE)
                     /\ UNCHANGED <<att_obj, upload_name, out>>
                ELSE /\ att_obj' = att
                     /\ upload_name' = name
                     /\ IF gate = "not_found"
                        THEN Die("attachment_not_found", 3, TRUE) /\ UNCHANGED out
                        ELSE IF gate \in {"would_create", "would_update"}
                        THEN /\ out' = Append(out, Echo(gate, att.version))
                             /\ Finish
                        ELSE /\ pc' = gate
                             /\ UNCHANGED <<out, failAt, code, exit>>
  /\ UNCHANGED <<prog, info, b, args, shown>>
  /\ UNCHANGED <<raced, changed, rerun, prev, runs>>
  /\ UNCHANGED <<remote, nextId, delVars>>

\* lines 144-150: create_attachment and the report
Create ==
  /\ pc = "create"
  /\ LET status == srv.post IN
     /\ calls' = Append(calls, Call("create", 0, upload_name, 0, status))
     /\ IF status \in {200, 201}
        THEN /\ remote' = Append(remote, Att(nextId, upload_name, 1))
             /\ nextId' = nextId + 1
             /\ out' = Append(out, Echo("created", 1))
             /\ Finish
        ELSE /\ Die("create_failed", 1, TRUE)
             /\ UNCHANGED <<remote, nextId, out>>
  /\ UNCHANGED <<prog, info, b, args, shown, srv>>
  /\ UNCHANGED <<updVars, delVars>>

\* a variant that compares versions first (the code does not)
UpdateIfUnchanged ==
  /\ pc = "update"
  /\ IF find_att(remote, att_obj.id).version # att_obj.version
     THEN /\ Die("version_conflict", 1, TRUE)
          /\ UNCHANGED <<calls, remote, out>>
     ELSE LET aid == att_obj.id
              title == current_title(att_obj, upload_name)
          IN /\ calls' = Append(calls, Call("update", aid, title, 0, srv.post))
             /\ IF srv.post = 200
                THEN /\ remote' = with_new_version(remote, aid, title)
                     /\ out' = Append(out, Echo("updated",
                                  find_att(remote, aid).version + 1))
                     /\ Finish
                ELSE /\ Die("update_failed", 1, TRUE)
                     /\ UNCHANGED <<remote, out>>
  /\ UNCHANGED <<prog, info, b, args, shown, nextId, srv>>
  /\ UNCHANGED <<updVars, delVars>>

\* lines 153-168: update_attachment under the existing title, and the report
Update ==
  /\ pc = "update"
  /\ LET aid == att_obj.id
         title == current_title(att_obj, upload_name)
         status == IF find_att(remote, aid) = NoAtt THEN 404 ELSE srv.post
     IN /\ calls' = Append(calls, Call("update", aid, title, 0, status))
        /\ IF status = 200
           THEN /\ remote' = with_new_version(remote, aid, title)
                /\ out' = Append(out, Echo("updated",
                             find_att(remote, aid).version + 1))
                /\ Finish
           ELSE /\ Die("update_failed", 1, TRUE)
                /\ UNCHANGED <<remote, out>>
  /\ UNCHANGED <<prog, info, b, args, shown, nextId, srv>>
  /\ UNCHANGED <<updVars, delVars>>

\* Another writer (section 5 of the documentation: the service's other
\* actors) uploads a new version of one attachment under its title, once
\* while a run and its repeat last: between the run's GET and its POST, or
\* between a dry run and its repeat.  What others did before the run read
\* the page is part of the initial state.
OtherWriter ==
  /\ prog = "update" /\ ~changed
  /\ \/ pc \in {"create", "update"}
     \/ pc = "done" /\ args.dry_run /\ failAt = "" /\ runs < MaxRuns
  /\ \E i \in 1..Len(remote) :
       /\ remote' = with_new_version(remote, remote[i].id, remote[i].title)
       /\ raced' = (pc = "update" /\ remote[i].id = att_obj.id)
  /\ changed' = TRUE
  /\ UNCHANGED <<prog, pc, info, b, args, calls, out, exit, code, failAt, shown>>
  /\ UNCHANGED <<nextId, srv, att_obj, upload_name, rerun, prev, runs>>
  /\ UNCHANGED delVars

\* the failure kinds of section 7 of the documentation
KindOf(site) ==
  IF site = "" THEN ""
  ELSE IF site \in {"not_a_list", "source_not_found", "no_confluence_config",
                    "no_page_id", "no_email", "no_token", "no_base_url"}
       THEN "config"
  ELSE IF site = "attachment_not_found" THEN "not_found"
  ELSE IF site = "declined" THEN "declined"
  ELSE "remote"

\* after a run that failed, the update command is run again, with any
\* arguments
NewRun ==
  /\ prog = "update" /\ pc = "done" /\ runs < MaxRuns /\ failAt # ""
  /\ pc' = "page" /\ info' = NoInfo /\ b' = NoBase /\ args' = NoArgs
  /\ calls' = <<>> /\ out' = <<>> /\ exit' = 0 /\ code' = 0 /\ failAt' = ""
  /\ att_obj' = NoAtt /\ upload_name' = NoTitle /\ raced' = FALSE
  /\ changed' = FALSE /\ rerun' = ""
  /\ prev' = [kind |-> KindOf(failAt), exit |-> exit, code |-> code]
  /\ runs' = runs + 1
  /\ UNCHANGED <<prog, shown>>
  /\ UNCHANGED <<envVars, delVars>>

\* after a dry run that reported what it would do, the command is run again
\* with the same arguments, mapping file and environment, without --dry-run:
\* lines 114-117 give the same page, base URL and upload name again
Rerun ==
  /\ prog = "update" /\ pc = "done" /\ runs < MaxRuns
  /\ args.dry_run /\ failAt = "" /\ out # <<>>
  /\ rerun' = out[1].msg
  /\ args' = [args EXCEPT !.dry_run_flag = "",
                          !.dry_run = update_dry_run("")]
  /\ upload_name' = IF args.attachment_name # NoTitle THEN args.attachment_name
                    ELSE args.file_name
  /\ pc' = "resolve"
  /\ calls' = <<>> /\ out' = <<>> /\ att_obj' = NoAtt /\ raced' = FALSE
  /\ prev' = NoPrev
  /\ runs' = runs + 1
  /\ UNCHANGED <<prog, info, b, exit, code, failAt, changed, shown>>
  /\ UNCHANGED <<envVars, delVars>>

Next ==
  \/ ShowPage \/ ResolvePage \/ MakeAuth \/ ResolveBase
  \/ ListPage \/ Confirm \/ DeleteOne
  \/ ResolveAttachment \/ Create \/ Update \/ OtherWriter \/ NewRun \/ Rerun

Spec == Init /\ [][Next]_vars

\* ------------------------------------------------------------- properties
CallsOf(ops) == SelectSeq(calls, LAMBDA c : c.op \in ops)

Mutations == CallsOf({"create", "update"})

Deletes == CallsOf({"delete"})

\* C1: whenever the update command sends an update call, the upload filename
\* of that call is the title the service holds for the attachment at that
\* moment, whatever --name was given.
C1_UpdateKeepsTitle ==
  [][(Len(calls') = Len(calls) + 1 /\ Last(calls').op = "update")
       => Last(calls').name = find_att(remote, Last(calls').id).title]_vars

\* an update call went out although --name named another title
C1_Witness ==
  /\ prog = "update" /\ pc = "done" /\ failAt = ""
  /\ args.attachment_id # 0
  /\ args.attachment_name \notin {NoTitle, att_obj.title}
  /\ Len(Mutations) = 1 /\ Mutations[1].op = "update"
  /\ Mutations[1].name = att_obj.title

\* C2: a run of the update command with --dry-run sends no create and no
\* update call; the run that repeats it without --dry-run against the
\* unchanged remote state sends exactly one such call (an update where the
\* dry run announced an update, a create where it announced a create).
C2_DryRunThenOne ==
  /\ (prog = "update" /\ args.dry_run) => Mutations = <<>>
  /\ (prog = "update" /\ pc = "done" /\ rerun # "" /\ ~changed)
       => /\ Len(Mutations) = 1
          /\ Mutations[1].op = (IF rerun = "would_update" THEN "update"
                                ELSE "create")

\* the repeat of a dry run that announced an update has ended
C2_Witness ==
  /\ prog = "update" /\ pc = "done" /\ rerun = "would_update" /\ ~changed
  /\ Len(Mutations) = 1

\* C3: the delete command sends a DELETE call only when dry-run was switched
\* off with --no-dry-run and either --yes was given or the prompt was
\* answered yes; a run without --no-dry-run, and a run whose prompt was
\* declined, end with no DELETE call sent.
C3_DeleteNeedsConsent ==
  /\ Deletes # <<>>
       => /\ prog = "delete" /\ args.dry_run_flag = "--no-dry-run"
          /\ args.yes \/ answer = "y"
  /\ (/\ prog = "delete" /\ pc = "done"
      /\ args.dry_run_flag # "--no-dry-run" \/ answer = "n")
       => Deletes = <<>>

\* a DELETE call went out after the prompt was answered yes
C3_Witness ==
  /\ prog = "delete" /\ args.dry_run_flag = "--no-dry-run"
  /\ Deletes # <<>> /\ ~args.yes /\ answer = "y"

FailedDeletes == {k \in 1..Len(Deletes) : Deletes[k].status \notin {200, 204}}

\* C4: in a confirmed delete run that is no dry run, one DELETE call is sent
\* for each matched attachment in turn, whatever the earlier ones were
\* answered, the failure count is the number of calls answered with a status
\* other than 200 and 204, and the summary reports that count ("all
\* succeeded" exactly when it is 0).
C4_EveryDeleteAttempted ==
  (/\ prog = "delete" /\ failAt = "" /\ args.dry_run_flag = "--no-dry-run"
   /\ pc \in {"delete", "done"})
    => /\ Len(Deletes) = idx
       /\ \A k \in 1..idx : Deletes[k].id = atts[k].id
       /\ failures = Cardinality(FailedDeletes)
       /\ pc = "done" =>
            /\ idx = Len(atts)
            /\ Last(out) = IF FailedDeletes = {} /\ atts # <<>>
                           THEN Echo("all_succeeded", 0)
                           ELSE IF atts = <<>> THEN Echo("no_match", 0)
                           ELSE Echo("completed_failures",
                                     Cardinality(FailedDeletes))

\* a run whose first DELETE failed and whose later ones were still sent
C4_Witness ==
  /\ prog = "delete" /\ pc = "done" /\ failAt = ""
  /\ Len(atts) >= 3 /\ Len(Deletes) = Len(atts)
  /\ Deletes[1].status = 404 /\ Deletes[2].status = 204
  /\ Cardinality(FailedDeletes) = 2

\* C5: when the list command has read the last page (the first response
\* without a "next" link), its output holds every record of the page that
\* passes the filter exactly once and in the service's order, whatever
\* number of records the page responses held.
C5_ListsEveryRecordOnce ==
  (prog = "list" /\ pc = "done" /\ failAt = "")
    => atts = collect(remote, args.filename_contains)

\* C6: two runs that fail in different ways among configuration error,
\* remote failure and declined confirmation end with different exit codes
\* (the status the process ends with, and the code its raise names).
C6_ExitCodesDistinguish ==
  (/\ pc = "done"
   /\ KindOf(failAt) \in {"config", "remote", "declined"}
   /\ prev.kind \in {"config", "remote", "declined"}
   /\ prev.kind # KindOf(failAt))
    => prev.exit # exit /\ prev.code # code

\* C7: a run of list, delete or update that fails with a configuration error
\* has sent no request.
C7_ConfigFailsBeforeRequests == KindOf(failAt) = "config" => calls = <<>>

\* an update run failed on the last configuration step
C7_Witness ==
  /\ prog = "update" /\ pc = "done" /\ failAt = "no_base_url" /\ exit # 0

\* what the run of show-page resolved its source to
ShownResolution ==
  IF info # NoInfo THEN Resolved(info.id, info.url) ELSE ConfigFail(failAt)

\* the entries of the shown mapping file whose source has the base filename
\* of the shown source
ShownMatches ==
  {i \in 1..Len(shown.publish.entries) :
     /\ shown.publish.entries[i].dict
     /\ Last(shown.publish.entries[i].source) = Last(shown.source)}

\* C8: a source resolves as every other source of the same base filename
\* does, and as the first entry of the mapping file whose source has that
\* base filename decides, whatever directories either path names.
C8_ResolutionByBaseName ==
  (prog = "show-page" /\ pc = "done")
    => /\ \A other \in Sources :
            Last(other) = Last(shown.source)
              => get_page_from_publish(shown.publish, other) = ShownResolution
       /\ ShownResolution =
            IF ~shown.publish.list THEN ConfigFail("not_a_list")
            ELSE IF ShownMatches = {} THEN ConfigFail("source_not_found")
            ELSE entry_page(shown.publish.entries[
                   CHOOSE i \in ShownMatches : \A j \in ShownMatches : i <= j])

\* a source under two directories resolved through an entry that names
\* another directory
C8_Witness ==
  /\ prog = "show-page" /\ pc = "done" /\ failAt = ""
  /\ Len(shown.source) = 3
  /\ ShownMatches # {}
  /\ \A i \in ShownMatches : shown.publish.entries[i].source # shown.source

\* C9: when another writer has added a version of the attachment after the
\* update command looked it up, the command still sends its update call for
\* that attachment; when the service accepts it the run ends as a success
\* that reports nothing but the update, and the attachment stands two
\* versions above the one looked up.
C9_StaleUpdateGoesThrough ==
  (prog = "update" /\ raced)
    => \/ pc = "update"
       \/ /\ pc = "done"
          /\ Len(Mutations) = 1
          /\ Mutations[1].op = "update" /\ Mutations[1].id = att_obj.id
          /\ srv.post = 200
               => /\ failAt = "" /\ exit = 0
                  /\ out = <<Echo("updated", att_obj.version + 2)>>
                  /\ find_att(remote, att_obj.id).version = att_obj.version + 2

\* the lost update: the run succeeded over a version it never saw
C9_Witness ==
  /\ prog = "update" /\ pc = "done" /\ raced /\ failAt = "" /\ exit = 0
  /\ find_att(remote, att_obj.id).version = att_obj.version + 2

\* C10: a page request of the listing answered with a failure status is the
\* last request of the run: the run ends there as a failure, having reported
\* no match and sent no DELETE call.
C10_FailedListingStops ==
  \A k \in 1..Len(calls) :
    (calls[k].op = "list" /\ calls[k].status # 200)
      => /\ k = Len(calls)
         /\ pc = "done" /\ failAt = "list_http" /\ exit # 0
         /\ out = <<>>
         /\ Deletes = <<>>

\* a delete run failed on its second page request, after a first page that
\* held a matching record
C10_Witness ==
  /\ prog = "delete" /\ args.dry_run_flag = "--no-dry-run" /\ args.yes
  /\ Len(calls) = 2 /\ calls[1].status = 200 /\ calls[2].status = 500
  /\ atts # <<>>
  /\ pc = "done"

\* C11: in a run of the update command with --attachment-id, no lookup by
\* name is sent, a fetch answered with another status than 200 is the last
\* request of the run, which ends there with the "not accessible" error,
\* and every create or update call of the run is an update of the
\* attachment id that was given, whatever body the fetch was answered with
\* and whatever create_if_missing is.
C11_ExplicitIdOnlyUpdatesIt ==
  (prog = "update" /\ args.attachment_id # 0)
    => /\ CallsOf({"lookup"}) = <<>>
       /\ \A k \in 1..Len(calls) :
            (calls[k].op = "fetch" /\ calls[k].status # 200)
              => /\ k = Len(calls)
                 /\ pc = "done" /\ failAt = "attachment_not_accessible"
                 /\ Mutations = <<>>
       /\ \A k \in 1..Len(Mutations) :
            /\ Mutations[k].op = "update"
            /\ Mutations[k].id = args.attachment_id

====
